---- MODULE Spec2Model ----
(***************************************************************************)
(* Model of the IRC line parser of src/src/message.rs: Message::parse and  *)
(* parse_prefix.  A line is a sequence of characters; every character is a *)
(* string ("CR" and "LF" stand for carriage return and line feed).         *)
(* The parser is a pure function, so it is an operator (MessageParse)      *)
(* built from one operator per block of the source, and the state machine  *)
(* applies it to a line drawn from a bounded set of lines.                 *)
(***************************************************************************)
EXTENDS Integers, Sequences, FiniteSets, TLC

VARIABLES line, pc, result

vars == <<line, pc, result>>

(***************************************************************************)
(* Bounds of the input space.                                              *)
(***************************************************************************)
\* longest line of the exhaustive part of the input space
MaxLen == 5
\* most positional arguments of a generated wire line
MaxArgs == 2
\* longest generated prefix token over PrefixChars
MaxTok == 3

CR == "CR"
LF == "LF"
CRLF == <<CR, LF>>

\* the characters of the exhaustive lines
Chars == {":", " ", "!", "@", CR, LF, "a", "b"}

\* the characters of the alphabet that str::trim removes (White_Space)
Whitespace == {" ", CR, LF}

(***************************************************************************)
(* String primitives of the standard library, as the source uses them.     *)
(***************************************************************************)
\* s[from..] of Rust, with a 1-based index
From(s, i) == SubSeq(s, i, Len(s))

\* s[..to), with a 1-based exclusive end
Upto(s, i) == SubSeq(s, 1, i - 1)

\* str::starts_with for a one-character pattern
StartsWith(s, c) == Len(s) > 0 /\ s[1] = c

\* str::ends_with for a pattern string
EndsWith(s, pat) ==
    /\ Len(s) >= Len(pat)
    /\ SubSeq(s, Len(s) - Len(pat) + 1, Len(s)) = pat

\* str::find for a one-character pattern: the 1-based index of the first
\* occurrence, 0 for None
RECURSIVE FindFrom(_, _, _)
FindFrom(s, c, i) ==
    IF i > Len(s) THEN 0
    ELSE IF s[i] = c THEN i
    ELSE FindFrom(s, c, i + 1)

Find(s, c) == FindFrom(s, c, 1)

\* str::trim: leading and trailing whitespace removed
RECURSIVE TrimLeft(_)
TrimLeft(s) ==
    IF Len(s) > 0 /\ s[1] \in Whitespace THEN TrimLeft(Tail(s)) ELSE s

RECURSIVE TrimRight(_)
TrimRight(s) ==
    IF Len(s) > 0 /\ s[Len(s)] \in Whitespace
    THEN TrimRight(SubSeq(s, 1, Len(s) - 1))
    ELSE s

Trim(s) == TrimRight(TrimLeft(s))

\* a plausible slip: only one trailing match is removed
TrimOneMatch(s, pat) ==
    IF EndsWith(s, pat) THEN SubSeq(s, 1, Len(s) - Len(pat)) ELSE s

\* str::trim_right_matches: every trailing repetition of pat is removed
RECURSIVE TrimRightMatches(_, _)
TrimRightMatches(s, pat) ==
    IF Len(pat) > 0 /\ EndsWith(s, pat)
    THEN TrimRightMatches(SubSeq(s, 1, Len(s) - Len(pat)), pat)
    ELSE s

(***************************************************************************)
(* Values of the result.                                                   *)
(***************************************************************************)
NoPrefix == <<"None">>
Server(name) == <<"Server", name>>
User(nick, user, host) == <<"User", nick, user, host>>

NoString == <<"None">>
SomeString(text) == <<"Some", text>>

\* the names of the code table this model knows; every other token is
\* Code::Unknown
KnownCodes == {<<"N", "I", "C", "K">>}

\* text.parse() with the fallback to Code::Unknown(text)
ResolveCode(text) ==
    IF text \in KnownCodes THEN <<"Known", text>> ELSE <<"Unknown", text>>

Ok(prefix, code, args, suffix) ==
    [ok |-> TRUE, err |-> "None", prefix |-> prefix, code |-> code,
     args |-> args, suffix |-> suffix]

Err(kind) ==
    [ok |-> FALSE, err |-> kind, prefix |-> NoPrefix,
     code |-> <<"Unknown", <<>>>>, args |-> <<>>, suffix |-> NoString]

Pending == Err("Pending")

(***************************************************************************)
(* parse_prefix                                                            *)
(***************************************************************************)
\* a plausible slip: the token is split at its first '@' before '!' is
\* looked for in what precedes it
parse_prefix_at_first(prefix) ==
    LET atpos == Find(prefix, "@") IN
    IF atpos = 0
    THEN IF Find(prefix, "!") = 0 THEN Server(prefix) ELSE NoPrefix
    ELSE LET head == Upto(prefix, atpos)
             excpos == Find(head, "!")
         IN IF excpos = 0
            THEN Server(prefix)
            ELSE User(Upto(head, excpos), From(head, excpos + 1),
                      From(prefix, atpos + 1))

\* a plausible slip: a token with '!' and no '@' is kept as a server name
parse_prefix_keep(prefix) ==
    LET excpos == Find(prefix, "!") IN
    IF excpos = 0
    THEN Server(prefix)
    ELSE LET nick == Upto(prefix, excpos)
             rest == From(prefix, excpos + 1)
             atpos == Find(rest, "@")
         IN IF atpos = 0
            THEN Server(prefix)
            ELSE User(nick, Upto(rest, atpos), From(rest, atpos + 1))

parse_prefix(prefix) ==
    LET excpos == Find(prefix, "!") IN
    IF excpos = 0
    THEN Server(prefix)
    ELSE LET nick == Upto(prefix, excpos)
             rest == From(prefix, excpos + 1)
             atpos == Find(rest, "@")
         IN IF atpos = 0
            THEN NoPrefix
            ELSE User(nick, Upto(rest, atpos), From(rest, atpos + 1))

(***************************************************************************)
(* Message::parse, block by block.                                         *)
(***************************************************************************)
\* a plausible slip: only the empty string is blank
IsBlankEmptyOnly(l) == Len(l) = 0

\* the blank check
IsBlank(l) == Len(l) = 0 \/ Len(Trim(l)) = 0

\* a plausible slip: a ':' line without a space is taken to have no prefix
LookPrefixLenient(state) ==
    IF StartsWith(state, ":") /\ Find(state, " ") # 0
    THEN LET idx == Find(state, " ") IN
         [err |-> "None", prefix |-> parse_prefix(SubSeq(state, 2, idx - 1)),
          state |-> From(state, idx + 1)]
    ELSE [err |-> "None", prefix |-> NoPrefix, state |-> state]

\* "Look for a prefix"
LookPrefix(state) ==
    IF StartsWith(state, ":")
    THEN LET idx == Find(state, " ") IN
         IF idx = 0
         THEN [err |-> "UnexpectedEnd", prefix |-> NoPrefix, state |-> state]
         ELSE [err |-> "None",
               prefix |-> parse_prefix(SubSeq(state, 2, idx - 1)),
               state |-> From(state, idx + 1)]
    ELSE [err |-> "None", prefix |-> NoPrefix, state |-> state]

\* a plausible slip: the state is not advanced past the space after the code
LookCommandNoAdvance(state) ==
    LET idx == Find(state, " ") IN
    IF idx = 0
    THEN IF Len(state) = 0
         THEN [err |-> "EmptyMessage", code |-> NoString, state |-> state]
         ELSE [err |-> "None", code |-> SomeString(state), state |-> <<>>]
    ELSE [err |-> "None", code |-> SomeString(Upto(state, idx)),
          state |-> From(state, idx)]

\* "Look for the command/reply"
LookCommand(state) ==
    LET idx == Find(state, " ") IN
    IF idx = 0
    THEN IF Len(state) = 0
         THEN [err |-> "EmptyMessage", code |-> NoString, state |-> state]
         ELSE [err |-> "None", code |-> SomeString(state),
               state |-> From(state, Len(state) + 1)]
    ELSE [err |-> "None", code |-> SomeString(Upto(state, idx)),
          state |-> From(state, idx + 1)]

\* the body of the loop over the arguments
RECURSIVE ArgsLoop(_, _)
ArgsLoop(state, args) ==
    IF StartsWith(state, ":")
    THEN [args |-> args, suffix |-> SomeString(From(state, 2))]
    ELSE LET idx == Find(state, " ") IN
         IF idx = 0
         THEN [args |-> Append(args, state), suffix |-> NoString]
         ELSE ArgsLoop(From(state, idx + 1), Append(args, Upto(state, idx)))

\* a plausible slip: the suffix keeps its leading ':'
RECURSIVE ArgsLoopKeepColon(_, _)
ArgsLoopKeepColon(state, args) ==
    IF StartsWith(state, ":")
    THEN [args |-> args, suffix |-> SomeString(state)]
    ELSE LET idx == Find(state, " ") IN
         IF idx = 0
         THEN [args |-> Append(args, state), suffix |-> NoString]
         ELSE ArgsLoopKeepColon(From(state, idx + 1),
                                Append(args, Upto(state, idx)))

LookArgsKeepColon(state) ==
    IF Len(state) > 0
    THEN ArgsLoopKeepColon(state, <<>>)
    ELSE [args |-> <<>>, suffix |-> NoString]

\* "Look for arguments and the suffix"
LookArgs(state) ==
    IF Len(state) > 0
    THEN ArgsLoop(state, <<>>)
    ELSE [args |-> <<>>, suffix |-> NoString]

\* the match on code, and the assembly of the Message
Finish(prefix, code, a) ==
    IF code = NoString
    THEN Err("EmptyCommand")
    ELSE Ok(prefix, ResolveCode(code[2]), a.args, a.suffix)

\* the part of Message::parse that follows the blank check
Tokenize(l) ==
    LET state == TrimRightMatches(l, CRLF)
        p == LookPrefix(state)
    IN IF p.err # "None" THEN Err(p.err)
       ELSE LET c == LookCommand(p.state) IN
            IF c.err # "None" THEN Err(c.err)
            ELSE Finish(p.prefix, c.code, LookArgs(c.state))

MessageParse(l) ==
    IF IsBlank(l) THEN Err("EmptyMessage") ELSE Tokenize(l)

(***************************************************************************)
(* The lines the parser is applied to.                                     *)
(***************************************************************************)
\* every string over S of length at most n
RECURSIVE Strings(_, _)
Strings(S, n) ==
    IF n = 0 THEN {<<>>}
    ELSE LET P == Strings(S, n - 1) IN
         P \cup {Append(s, c) : s \in {p \in P : Len(p) = n - 1}, c \in S}

ShortLines == Strings(Chars, MaxLen)

PrefixChars == {"n", "!", "@"}

PrefixTokens ==
    (Strings(PrefixChars, MaxTok) \ {<<>>})
        \cup {<<"n", "!", "u", "@", "h">>, <<"s", ".", "o">>}

Lead(t) == <<":">> \o t \o <<" ">>

\* the leads of the fully combined wire lines: none, a user, a server
FewLeads == {<<>>, Lead(<<"n", "!", "u", "@", "h">>), Lead(<<"s", ".", "o">>)}

CodeTokens == {<<"N", "I", "C", "K">>, <<"C">>}

ArgTokens == {<<"a">>, <<"b", "2">>}

RECURSIVE Flatten(_)
Flatten(ts) ==
    IF Len(ts) = 0 THEN <<>> ELSE <<" ">> \o Head(ts) \o Flatten(Tail(ts))

ArgLists == {Flatten(ts) : ts \in Strings(ArgTokens, MaxArgs)}

TrailTexts == {<<>>, <<"t">>, <<"t", " ", "u">>, <<":", "t">>, <<" ", "t">>}

Trails == {<<>>} \cup {<<" ", ":">> \o t : t \in TrailTexts}

Terminators == {<<>>, CRLF, CRLF \o CRLF, <<LF>>, <<CR>>}

\* what follows the lead in the lines that vary the prefix token
FewTails ==
    {<<"C">>, <<"C", " ", "a", " ", ":", "t">>, <<":", "x", " ", "y">>,
     <<"C", " ", "a", CR, LF>>}

WireLines ==
    {ld \o cd \o al \o tr \o tm :
        ld \in FewLeads, cd \in CodeTokens, al \in ArgLists,
        tr \in Trails, tm \in Terminators}
    \cup {Lead(t) \o tl : t \in PrefixTokens, tl \in FewTails}

Lines == ShortLines \cup WireLines

(***************************************************************************)
(* The state machine: a line arrives and is parsed.                        *)
(***************************************************************************)
Init ==
    /\ line \in Lines
    /\ pc = "input"
    /\ result = Pending

Parse ==
    /\ pc = "input"
    /\ result' = MessageParse(line)
    /\ pc' = "parsed"
    /\ UNCHANGED line

Next == Parse

Spec == Init /\ [][Next]_vars

(***************************************************************************)
(* Vocabulary of the properties.  These definitions describe lines and     *)
(* results by position, without using the parser's own operators.          *)
(***************************************************************************)
Parsed == pc = "parsed"

AllWhitespace(s) == \A i \in 1..Len(s) : s[i] \in Whitespace

HasChar(s, c) == \E i \in 1..Len(s) : s[i] = c

\* the position of the first c in s (s holds one)
FirstPos(s, c) ==
    CHOOSE i \in 1..Len(s) : s[i] = c /\ \A j \in 1..(i - 1) : s[j] # c

\* s without its last CR+LF, when it ends in one
WithoutOneCrlf(s) ==
    IF EndsWith(s, CRLF) THEN SubSeq(s, 1, Len(s) - 2) ELSE s

\* the characters from position n + 1 on are CR+LF sequences and nothing else
IsCrlfRun(l, n) ==
    /\ (Len(l) - n) % 2 = 0
    /\ \A i \in (n + 1)..Len(l) :
           l[i] = (IF (i - n) % 2 = 1 THEN CR ELSE LF)

\* the line without any of the CR+LF sequences it ends in
Stripped(l) ==
    LET n == CHOOSE m \in 0..Len(l) :
                 /\ IsCrlfRun(l, m)
                 /\ ~(m >= 2 /\ l[m - 1] = CR /\ l[m] = LF)
    IN SubSeq(l, 1, n)

\* the pieces of s between its spaces
RECURSIVE Split(_)
Split(s) ==
    IF Len(s) = 0 THEN << <<>> >>
    ELSE LET r == Split(SubSeq(s, 1, Len(s) - 1))
             c == s[Len(s)]
         IN IF c = " " THEN Append(r, <<>>)
            ELSE [r EXCEPT ![Len(r)] = Append(@, c)]

\* the index of the code among the pieces of b: a leading ':' introduces
\* the prefix
CodeIndex(b) == IF StartsWith(b, ":") THEN 2 ELSE 1

\* b has the form [':' prefix ' '] code (' ' arg)* with code and every arg
\* non-empty and without a space, and no arg starting with ':'
IsForm(b) ==
    LET ps == Split(b)
        k == CodeIndex(b)
    IN /\ Len(ps) >= k
       /\ \A i \in k..Len(ps) : Len(ps[i]) > 0
       /\ \A i \in (k + 1)..Len(ps) : ps[i][1] # ":"

FormCode(b) == Split(b)[CodeIndex(b)]

FormArgs(b) == SubSeq(Split(b), CodeIndex(b) + 1, Len(Split(b)))

\* the positions j of b at which a trailing token starts: a ':' after a
\* space, with a well-formed head before that space
TrailingStarts(b) ==
    {j \in 3..Len(b) :
        /\ b[j] = ":"
        /\ b[j - 1] = " "
        /\ IsForm(SubSeq(b, 1, j - 2))}

\* the last token of a successful result
FinalToken(r) ==
    IF r.suffix # NoString THEN r.suffix[2]
    ELSE IF Len(r.args) > 0 THEN r.args[Len(r.args)]
    ELSE r.code[2]

(***************************************************************************)
(* C1                                                                      *)
(***************************************************************************)
\* C1 (as stated): when the line carries a ':'-introduced trailing token
\* after the code token, the parse succeeds and the text after that ':' up
\* to the end of the CRLF-stripped line is the final element of args, after
\* all positional arguments.
C1_TrailingIsLastArg ==
    LET b == Stripped(line) IN
    Parsed =>
        \A j \in TrailingStarts(b) :
            LET head == SubSeq(b, 1, j - 2)
            IN /\ result.ok
               /\ result.args = Append(FormArgs(head), From(b, j + 1))

\* C1 (amended): when the line carries a ':'-introduced trailing token
\* after the code token, the parse succeeds, the text after that ':' up to
\* the end of the CRLF-stripped line is the suffix of the message, spaces
\* included, and args holds the positional arguments alone, in order.
C1_TrailingIsSuffix ==
    LET b == Stripped(line) IN
    Parsed =>
        \A j \in TrailingStarts(b) :
            LET head == SubSeq(b, 1, j - 2)
            IN /\ result.ok
               /\ result.code[2] = FormCode(head)
               /\ result.args = FormArgs(head)
               /\ result.suffix = SomeString(From(b, j + 1))

\* a user-prefixed line with two arguments and a trailing token with a
\* space in it has been parsed
C1_Witness ==
    /\ Parsed
    /\ line = <<":", "n", "!", "u", "@", "h", " ", "C", " ", "a", " ",
                "b", "2", " ", ":", "t", " ", "u">>
    /\ result.ok
    /\ result.args = << <<"a">>, <<"b", "2">> >>
    /\ result.suffix = SomeString(<<"t", " ", "u">>)

(***************************************************************************)
(* C2                                                                      *)
(***************************************************************************)
\* C2: for every non-blank line whose CRLF-stripped text has the form
\* [':' prefix ' '] code (' ' arg)*, the parse succeeds, the token resolved
\* as the code is exactly code, and args is exactly the arguments of the
\* line in wire order, with no suffix.
C2_PositionalArgs ==
    LET b == Stripped(line) IN
    (Parsed /\ ~AllWhitespace(line) /\ IsForm(b)) =>
        /\ result.ok
        /\ result.code[2] = FormCode(b)
        /\ result.args = FormArgs(b)
        /\ Len(result.args) = Len(Split(b)) - CodeIndex(b)
        /\ \A i \in 1..Len(result.args) : Len(result.args[i]) > 0
        /\ result.suffix = NoString

\* a server-prefixed line with two different arguments has been parsed
C2_Witness ==
    /\ Parsed
    /\ line = <<":", "s", ".", "o", " ", "N", "I", "C", "K", " ", "a", " ",
                "b", "2">>
    /\ result.ok
    /\ result.prefix = Server(<<"s", ".", "o">>)
    /\ result.code = <<"Known", <<"N", "I", "C", "K">>>>
    /\ result.args = << <<"a">>, <<"b", "2">> >>

(***************************************************************************)
(* C3                                                                      *)
(***************************************************************************)
\* the line is ':' + a prefix token + one space, with or without a CR+LF
IsOnlyPrefixAndSpace(l) ==
    LET b == WithoutOneCrlf(l) IN
    /\ Len(b) >= 2
    /\ b[1] = ":"
    /\ b[Len(b)] = " "
    /\ \A i \in 1..(Len(b) - 1) : b[i] # " "

\* C3: when a prefix consumes everything and no command text remains, the
\* parse fails with EmptyCommand.
C3_EmptyCommand ==
    (Parsed /\ IsOnlyPrefixAndSpace(line)) => result = Err("EmptyCommand")

C5_OnlyPrefix ==
    LET b == Stripped(line) IN
    (/\ Parsed
     /\ ~AllWhitespace(line)
     /\ StartsWith(b, ":")
     /\ ~HasChar(b, " ")) => result = Err("UnexpectedEnd")

\* a line that is a prefix and its CR+LF has been rejected
C5_Witness ==
    /\ Parsed
    /\ line = <<":", "a", "!", CR, LF>>
    /\ result.err = "UnexpectedEnd"

(***************************************************************************)
(* C6                                                                      *)
(***************************************************************************)
\* t holds a '!' and no '@' after its first '!'
IsBangWithoutAt(t) ==
    /\ HasChar(t, "!")
    /\ \A i \in (FirstPos(t, "!") + 1)..Len(t) : t[i] # "@"

\* the line is ':' + token + ' ' + rest with such a token and a non-empty
\* rest
HasDiscardedPrefix(l) ==
    /\ StartsWith(l, ":")
    /\ HasChar(l, " ")
    /\ FirstPos(l, " ") < Len(l)
    /\ IsBangWithoutAt(SubSeq(l, 2, FirstPos(l, " ") - 1))

RestOf(l) == From(l, FirstPos(l, " ") + 1)

SameCodeAndArgs(r1, r2) ==
    /\ r1.code = r2.code
    /\ r1.args = r2.args
    /\ r1.suffix = r2.suffix

\* C6 (as stated): for every line ':' + token + ' ' + rest whose token holds
\* '!' and no '@' after it, and whose rest is non-empty, the parse succeeds
\* without a prefix, and its code and arguments are those of the parse of
\* rest alone.
C6_DiscardedPrefixAnyRest ==
    (Parsed /\ HasDiscardedPrefix(line)) =>
        /\ result.ok
        /\ result.prefix = NoPrefix
        /\ MessageParse(RestOf(line)).ok
        /\ SameCodeAndArgs(result, MessageParse(RestOf(line)))

\* C6 (amended): the same, for a rest that holds a character other than
\* whitespace and does not start with ':'.
C6_DiscardedPrefix ==
    (/\ Parsed
     /\ HasDiscardedPrefix(line)
     /\ ~AllWhitespace(RestOf(line))
     /\ ~StartsWith(RestOf(line), ":")) =>
        /\ result.ok
        /\ result.prefix = NoPrefix
        /\ MessageParse(RestOf(line)).ok
        /\ SameCodeAndArgs(result, MessageParse(RestOf(line)))

\* a line with the prefix token n! , an argument and a trailing token has
\* been parsed without a prefix
C6_Witness ==
    /\ Parsed
    /\ line = <<":", "n", "!", " ", "C", " ", "a", " ", ":", "t">>
    /\ result.ok
    /\ result.prefix = NoPrefix
    /\ result.code[2] = <<"C">>
    /\ result.args = << <<"a">> >>

(***************************************************************************)
(* C7                                                                      *)
(***************************************************************************)
\* the line has a prefix token: it starts with ':' and holds a space
HasPrefixToken(l) == StartsWith(Stripped(l), ":") /\ HasChar(Stripped(l), " ")

PrefixTokenOf(l) == SubSeq(Stripped(l), 2, FirstPos(Stripped(l), " ") - 1)

\* p is the prefix the claim gives the token t
IsClassified(t, p) ==
    IF ~HasChar(t, "!")
    THEN p = Server(t)
    ELSE LET rest == From(t, FirstPos(t, "!") + 1) IN
         HasChar(rest, "@") =>
             /\ p[1] = "User"
             /\ p[2] = Upto(t, FirstPos(t, "!"))
             /\ p[3] = Upto(rest, FirstPos(rest, "@"))
             /\ p[4] = From(rest, FirstPos(rest, "@") + 1)
             /\ ~HasChar(p[2], "!")
             /\ ~HasChar(p[3], "@")
             /\ p[2] \o <<"!">> \o p[3] \o <<"@">> \o p[4] = t

\* C7: a token without '!' is Server(token), '@' or not; a token with '!' is
\* split at its first '!', and when the rest holds an '@' the prefix is
\* User(nick, rest before its first '@', rest after it); the three fields
\* and the two delimiters concatenate back to the token.
C7_PrefixClasses ==
    (Parsed /\ result.ok /\ HasPrefixToken(line)) =>
        IsClassified(PrefixTokenOf(line), result.prefix)

\* a token with an '@' before its first '!' and an '@' after it has been
\* classified: the first '@' stays in the nickname
C7_Witness ==
    /\ Parsed
    /\ result.ok
    /\ HasPrefixToken(line)
    /\ PrefixTokenOf(line) = <<"@", "!", "@">>
    /\ result.prefix = User(<<"@">>, <<>>, <<>>)

(***************************************************************************)
(* C8                                                                      *)
(***************************************************************************)
\* C8 (as stated): of two or more CR+LF sequences at the end of a non-blank
\* line only the last is removed, the others stay in the final token; a lone
\* CR or LF at the end is not removed.
C8_ExactlyOneCrlf ==
    (Parsed /\ result.ok) =>
        /\ EndsWith(line, CRLF \o CRLF) => EndsWith(FinalToken(result), CRLF)
        /\ (EndsWith(line, <<LF>>) /\ ~EndsWith(line, CRLF)) =>
               EndsWith(FinalToken(result), <<LF>>)
        /\ EndsWith(line, <<CR>>) => EndsWith(FinalToken(result), <<CR>>)

\* C8 (amended): every CR+LF sequence at the end of a non-blank line is
\* removed, and nothing else: the final token is the end of the line without
\* those sequences (before the one space that may follow a code without
\* arguments), no CR+LF of the end of the line is left in it, and a lone CR
\* or LF at the end of the line stays in it.
C8_EveryTrailingCrlf ==
    LET f == FinalToken(result)
        b == Stripped(line)
    IN (Parsed /\ result.ok) =>
        /\ \/ EndsWith(b, f)
           \/ /\ Len(result.args) = 0
              /\ result.suffix = NoString
              /\ EndsWith(b, f \o <<" ">>)
        /\ Len(f) = 0 => b[Len(b)] \in {" ", ":"}
        /\ (EndsWith(line, CRLF) /\ ~EndsWith(b, <<" ">>)) =>
               ~EndsWith(f, CRLF)
        /\ (EndsWith(line, <<LF>>) /\ ~EndsWith(line, CRLF)) =>
               EndsWith(f, <<LF>>)
        /\ EndsWith(line, <<CR>>) => EndsWith(f, <<CR>>)

\* a line that ends in two CR+LF sequences has been parsed, and its last
\* argument holds neither
C8_Witness ==
    /\ Parsed
    /\ line = <<"C", " ", "a", CR, LF, CR, LF>>
    /\ result.ok
    /\ result.args = << <<"a">> >>

(***************************************************************************)
(* C9                                                                      *)
(***************************************************************************)
\* the line is a well-formed line with at least one argument, followed by
\* one space
HasFinalSpace(l) ==
    /\ Len(l) > 0
    /\ l[Len(l)] = " "
    /\ IsForm(Upto(l, Len(l)))
    /\ Len(FormArgs(Upto(l, Len(l)))) > 0

\* C9: a line whose last positional argument is followed by one final space
\* yields the args of the line without that space, and no empty last
\* element.
C9_NoEmptyLastArg ==
    (Parsed /\ HasFinalSpace(line)) =>
        /\ result.ok
        /\ result.args = MessageParse(Upto(line, Len(line))).args
        /\ result.args[Len(result.args)] # <<>>

(***************************************************************************)
(* C10                                                                     *)
(***************************************************************************)
\* C10: no successful parse has a code resolved from the empty string.
C10_CodeNotEmpty ==
    (Parsed /\ result.ok) =>
        /\ Len(result.code[2]) > 0
        /\ result.code # <<"Unknown", <<>>>>

====
